---- MODULE Spec2Model ----
(***************************************************************************)
(* Model of cli/script/generate-fn-cli-refs.py: the generator of the Fn    *)
(* CLI reference documents.  One run is the __main__ block: check the      *)
(* output directory, construct an FnCliDocWriter, generate_doc().          *)
(*                                                                         *)
(* Text is modelled as a sequence of one-character strings, so that        *)
(* str.split, str.join, textwrap.dedent and Template.substitute are        *)
(* computed character by character as Python computes them.                *)
(*                                                                         *)
(* The shebang of the script names "python", which is Python 2 on some      *)
(* systems and Python 3 on others.  The two differ in one place the script *)
(* depends on: subprocess.check_output returns a str under Python 2 and a  *)
(* bytes object under Python 3.  The interpreter is an input of the run.   *)
(***************************************************************************)
EXTENDS Integers, Sequences, FiniteSets, TLC

(***************************************************************************)
(* Bounds of the model.                                                    *)
(***************************************************************************)
\* longest command list file, in lines
MaxLines == 2
\* largest count of -v flags
MaxVerbose == 1

(***************************************************************************)
(* Text helpers.                                                           *)
(***************************************************************************)
NL == "\n"
\* the backquote character, which a TLA+ string literal cannot hold
BQ == "<backquote>"

\* characters str.split() with no argument treats as separators
Whitespace == {" ", "\t", "\n", "\r"}

\* the least element of a non-empty set of positions
First(S) == CHOOSE i \in S : \A j \in S : i <= j

\* the characters of s from position i on
Drop(s, i) == SubSeq(s, i, Len(s))

\* the concatenation of a sequence of sequences
RECURSIVE Flatten(_)
Flatten(ss) ==
    IF Len(ss) = 0 THEN <<>>
    ELSE IF Len(ss) = 1 THEN ss[1]
    ELSE LET h == Len(ss) \div 2
         IN  Flatten(SubSeq(ss, 1, h)) \o Flatten(SubSeq(ss, h + 1, Len(ss)))

\* str.split(sep) for a one-character separator: the field before the first
\* separator, then the fields of the rest; empty fields are kept
RECURSIVE Split(_, _)
Split(s, sep) ==
    LET at == {i \in 1..Len(s) : s[i] = sep}
    IN  IF at = {} THEN <<s>>
        ELSE <<SubSeq(s, 1, First(at) - 1)>> \o Split(Drop(s, First(at) + 1), sep)

\* str.split() with no argument: leading whitespace is passed over, a token
\* runs up to the next whitespace; there is no empty token
RECURSIVE SplitWs(_)
SplitWs(s) ==
    LET ink == {i \in 1..Len(s) : s[i] \notin Whitespace}
    IN  IF ink = {} THEN <<>>
        ELSE LET from == First(ink)
                 gaps == {i \in from..Len(s) : s[i] \in Whitespace}
                 to   == IF gaps = {} THEN Len(s) ELSE First(gaps) - 1
             IN  <<SubSeq(s, from, to)>> \o SplitWs(Drop(s, to + 1))

\* sep.join(parts)
Join(sep, parts) ==
    Flatten([i \in 1..(2 * Len(parts) - 1) |->
                IF i % 2 = 1 THEN parts[(i + 1) \div 2] ELSE sep])

(***************************************************************************)
(* textwrap.dedent: the leading whitespace common to every line that is    *)
(* not blank is removed from each line; a blank line becomes empty.        *)
(***************************************************************************)
Indent == {" ", "\t"}

IsBlankLine(line) == \A i \in 1..Len(line) : line[i] \in Indent

\* the whitespace a line starts with
LeadingWs(line) ==
    LET ink == {i \in 1..Len(line) : line[i] \notin Indent}
    IN  IF ink = {} THEN line ELSE SubSeq(line, 1, First(ink) - 1)

\* the longest sequence both a and b start with
CommonPrefix(a, b) ==
    LET n    == IF Len(a) < Len(b) THEN Len(a) ELSE Len(b)
        diff == {i \in 1..n : a[i] # b[i]}
    IN  IF diff = {} THEN SubSeq(a, 1, n) ELSE SubSeq(a, 1, First(diff) - 1)

\* the margin of the lines from position i on, given the margin so far
RECURSIVE Margin(_, _, _)
Margin(lines, i, m) ==
    IF i > Len(lines) THEN m
    ELSE IF IsBlankLine(lines[i]) THEN Margin(lines, i + 1, m)
    ELSE Margin(lines, i + 1, CommonPrefix(m, LeadingWs(lines[i])))

dedent(text) ==
    LET lines == Split(text, NL)
        full  == {i \in 1..Len(lines) : ~IsBlankLine(lines[i])}
        first == IF full = {} THEN <<>>
                 ELSE LeadingWs(lines[CHOOSE i \in full : \A j \in full : i <= j])
        m     == Margin(lines, 1, first)
    IN  Join(<<NL>>,
             [i \in 1..Len(lines) |->
                 IF IsBlankLine(lines[i]) THEN <<>>
                 ELSE Drop(lines[i], Len(m) + 1)])

(***************************************************************************)
(* The class constants.                                                    *)
(***************************************************************************)
FN_COMMAND == <<"f", "n">>

HELP_FLAG == <<"-", "-", "h", "e", "l", "p">>

MD_EXT == <<".", "m", "d">>

\* the two placeholder names
KeyCommand == <<"c", "o", "m", "m", "a", "n", "d">>

KeyCommandOutput == <<"c", "o", "m", "m", "a", "n", "d", "_",
                      "o", "u", "t", "p", "u", "t">>

(***************************************************************************)
(* Values handed to the template: text (str), or the bytes object that     *)
(* subprocess.check_output returns under Python 3.                         *)
(***************************************************************************)
StrVal(t) == [kind |-> "str", text |-> t]

BytesVal(t) == [kind |-> "bytes", text |-> t]

\* repr of a bytes object: b'...' with the escapes of the printable subset
EscapeByte(c, q) ==
    CASE c = "\n" -> <<"\\", "n">>
      [] c = "\t" -> <<"\\", "t">>
      [] c = "\r" -> <<"\\", "r">>
      [] c = "\\" -> <<"\\", "\\">>
      [] c = q    -> <<"\\", q>>
      [] OTHER    -> <<c>>

EscapeBytes(t, q) == Flatten([i \in 1..Len(t) |-> EscapeByte(t[i], q)])

BytesRepr(t) ==
    LET has(c) == \E i \in 1..Len(t) : t[i] = c
        q == IF has("'") /\ ~has("\"") THEN "\"" ELSE "'"
    IN  <<"b", q>> \o EscapeBytes(t, q) \o <<q>>

\* str(value), the conversion Template.substitute applies to each value
Str(v) == IF v.kind = "bytes" THEN BytesRepr(v.text) ELSE v.text

(***************************************************************************)
(* string.Template.substitute: "$$" is a literal "$", "$name" is the       *)
(* value of the longest identifier that follows the "$".                   *)
(***************************************************************************)
IdStart == {"_", "a", "b", "c", "d", "e", "f", "g", "h", "i", "j", "k", "l", "m",
            "n", "o", "p", "q", "r", "s", "t", "u", "v", "w", "x", "y", "z",
            "A", "B", "C", "D", "E", "F", "G", "H", "I", "J", "K", "L", "M",
            "N", "O", "P", "Q", "R", "S", "T", "U", "V", "W", "X", "Y", "Z"}

IdChar == IdStart \cup {"0", "1", "2", "3", "4", "5", "6", "7", "8", "9"}

\* length of the longest run of identifier characters s starts with
IdLen(s) ==
    LET other == {i \in 1..Len(s) : s[i] \notin IdChar}
    IN  IF other = {} THEN Len(s) ELSE First(other) - 1

\* what substitute raises on a "$" that starts no placeholder
ValueError == <<"ValueError">>

\* the pattern of Template splits a template into literal text, escapes
\* ("$$") and named placeholders ("$name")
RECURSIVE Pieces(_)
Pieces(t) ==
    LET at == {i \in 1..Len(t) : t[i] = "$"}
    IN  IF at = {} THEN <<[kind |-> "text", text |-> t]>>
        ELSE LET r == Drop(t, First(at) + 1)
             IN  <<[kind |-> "text", text |-> SubSeq(t, 1, First(at) - 1)]>> \o
                 (IF r # <<>> /\ Head(r) = "$"
                  THEN <<[kind |-> "escaped", text |-> <<"$">>]>> \o Pieces(Tail(r))
                  ELSE IF r # <<>> /\ Head(r) \in IdStart
                  THEN <<[kind |-> "named", text |-> SubSeq(r, 1, IdLen(r))]>>
                       \o Pieces(Drop(r, IdLen(r) + 1))
                  ELSE <<[kind |-> "invalid", text |-> r]>>)

\* Template(text): the template, split by the pattern
Template(text) == Pieces(text)

\* Template.substitute: literal text is copied, "$$" becomes "$", a named
\* placeholder becomes str() of its value in the mapping
substitute(template, mapping) ==
    Flatten([i \in 1..Len(template) |->
                CASE template[i].kind = "text"    -> template[i].text
                  [] template[i].kind = "escaped" -> <<"$">>
                  [] template[i].kind = "named"   -> Str(mapping[template[i].text])
                  [] OTHER                        -> ValueError])

\* the twelve spaces every line of the template literal is indented by
Pad == <<" ", " ", " ", " ", " ", " ", " ", " ", " ", " ", " ", " ">>

\* the literal handed to dedent (the backslash that opens it joins its first line)
TemplateLiteral ==
    Pad \o <<"#", " ", BQ, "$", "c", "o", "m", "m", "a", "n", "d", BQ, NL>>
    \o <<NL>>
    \o Pad \o <<BQ, BQ, BQ, "c", NL>>
    \o Pad \o <<"$", "$", " ", "$", "c", "o", "m", "m", "a", "n", "d", NL>>
    \o Pad \o <<"$", "c", "o", "m", "m", "a", "n", "d", "_",
                "o", "u", "t", "p", "u", "t", NL>>
    \o Pad \o <<BQ, BQ, BQ>>

doc_template == Template(dedent(TemplateLiteral))

(***************************************************************************)
(* The inputs of a run: the command line, the command list file, and the   *)
(* environment the script runs in.                                         *)
(***************************************************************************)
\* the lines a command list file is made of
Lines == { <<"f", "n", " ", "b", "u", "i", "l", "d">>,
           <<>>,
           <<"f", "n", " ", "a", "p", "p", "s", " ", "l", "i", "s", "t">>,
           <<"n", "o", "t", "f", "n", " ", "f", "o", "o">>,
           <<" ", " ", "f", "n", " ", " ", " ", "b", "u", "i", "l", "d", " ">> }

\* the command list of the scenario: "fn build", a blank line, "fn apps list",
\* "notfn foo", each ended by a newline
ScenarioList ==
    <<"f", "n", " ", "b", "u", "i", "l", "d", NL, NL,
      "f", "n", " ", "a", "p", "p", "s", " ", "l", "i", "s", "t", NL,
      "n", "o", "t", "f", "n", " ", "f", "o", "o", NL>>

\* the sequences over S of length 1 to n
SeqsUpTo(S, n) == UNION {[1..k -> S] : k \in 1..n}

\* the values of --output-dir: the same directory, with and without the separator
OutputDirs == { <<"r", "e", "f", "s", "/">>, <<"r", "e", "f", "s">> }

\* what can be wrong with the environment of a run
Faults == {"none", "nodir", "unreadable", "nolaunch", "nonzero", "unwritable"}

\* the argument vector the external tool fails on, under the fault "nonzero"
FailingArgv == << <<"f", "n">>, <<"b", "u", "i", "l", "d">>, HELP_FLAG >>

\* the paths that cannot be opened for writing, under the fault "unwritable"
ReadOnlyPaths ==
    { <<"r", "e", "f", "s", "/", "f", "n", "-", "a", "p", "p", "s", "-",
        "l", "i", "s", "t", ".", "m", "d">>,
      <<"r", "e", "f", "s", "f", "n", "-", "a", "p", "p", "s", "-",
        "l", "i", "s", "t", ".", "m", "d">> }

\* the text the external tool prints for an argument vector
HelpText(argv) == <<"H", ":">> \o Join(<<" ">>, argv) \o <<NL>>

\* a directory holding no file
NoFiles == [p \in {} |-> <<>>]

VARIABLES
    fileText,       \* content of the command list file
    output_dir,     \* --output-dir
    no_action,      \* --no-action
    verbose,        \* count of -v
    fault,          \* the fault of the environment
    py3,            \* the interpreter is Python 3: check_output returns bytes
    pc,             \* position of the script
    log_verbose,    \* self._verbose
    command_list,   \* generate_doc: command_list
    idx,            \* generate_doc: position of the for loop in command_list
    command,        \* generate_doc: command, the token list
    command_output, \* generate_doc: command_output
    files,          \* the file system: path -> content
    inflight,       \* count of child processes started and not yet reaped
    events,         \* process invocations and document writes of the run, in order
    stderr,         \* messages written to stderr
    exitStatus,     \* exit status of the script, -1 while it runs
    run,            \* 1 in the first run of the script, 2 in the second
    filesAtStart    \* the file system when the current run started

args == <<fileText, output_dir, no_action, verbose, fault, py3>>

vars == <<fileText, output_dir, no_action, verbose, fault, py3, pc, log_verbose,
          command_list, idx, command, command_output, files, inflight, events,
          stderr, exitStatus, run, filesAtStart>>

\* the locals of generate_doc
locals == <<command_list, idx, command, command_output>>

Init ==
    /\ fileText \in {Join(<<NL>>, ls) : ls \in SeqsUpTo(Lines, MaxLines)}
                    \cup {ScenarioList}
    /\ output_dir \in OutputDirs
    /\ no_action \in BOOLEAN
    /\ verbose \in 0..MaxVerbose
    /\ fault \in Faults
    /\ py3 \in BOOLEAN
    /\ pc = "start"
    /\ log_verbose = 0
    /\ command_list = <<>>
    /\ idx = 1
    /\ command = <<>>
    /\ command_output = StrVal(<<>>)
    /\ files = NoFiles
    /\ inflight = 0
    /\ events = <<>>
    /\ stderr = <<>>
    /\ exitStatus = -1
    /\ run = 1
    /\ filesAtStart = NoFiles

(***************************************************************************)
(* Helpers of the actions.                                                 *)
(***************************************************************************)
\* _log: the message reaches stderr iff self._verbose >= log_level (1)
Log(err, msg, arg) ==
    IF log_verbose >= 1 THEN Append(err, [msg |-> msg, arg |-> arg]) ELSE err

\* a write to stderr that is not gated by the verbosity
Say(err, msg, arg) == Append(err, [msg |-> msg, arg |-> arg])

\* an entry of the trace of the run
Event(ev, line, what) == [ev |-> ev, line |-> line, what |-> what]

\* verbose or no_action
VerboseOr(v, n) == IF v # 0 THEN v ELSE IF n THEN 1 ELSE 0

\* the no-action flag is not honoured
DryRun_Off == FALSE

\* self._no_action, as _run_command and _write_doc read it
DryRun == no_action

\* the guard of _run_command lets every command through
IsFnCommand_Any(cmd) == TRUE

\* the guard of _run_command: the first token is the tool literal
IsFnCommand(cmd) == cmd[1] = FN_COMMAND

\* _get_doc_filename
get_doc_filename(dir, cmd) == dir \o Join(<<"-">>, cmd) \o MD_EXT

\* the file _write_doc writes for a line of the list
OutputFile(command_string) == get_doc_filename(output_dir, SplitWs(command_string))

\* the document of a command: the template with both placeholders substituted
Render(command_string, output) ==
    substitute(doc_template,
               (KeyCommand :> StrVal(command_string)) @@ (KeyCommandOutput :> output))

\* the file is opened for appending: the content is added to what it holds
WriteFile_Append(fs, path, content) ==
    [p \in DOMAIN fs \cup {path} |->
        IF p # path THEN fs[p]
        ELSE IF path \in DOMAIN fs THEN fs[path] \o content ELSE content]

\* open(path, 'w') followed by write(content): the file holds content alone
WriteFile(fs, path, content) ==
    [p \in DOMAIN fs \cup {path} |-> IF p = path THEN content ELSE fs[p]]

\* what subprocess.check_output returns for the text the child printed
Captured(text) == IF py3 THEN BytesVal(text) ELSE StrVal(text)

\* the script ends with status st
Exit(st) == pc' = "exit" /\ exitStatus' = st

(***************************************************************************)
(* The actions: the steps of the script, one per branch of the code.       *)
(***************************************************************************)
\* the missing output directory is not noticed
DirMissing_Ignored ==
    /\ pc = "start"
    /\ fault = "nodir"
    /\ pc' = "construct"
    /\ UNCHANGED <<args, log_verbose, locals, files, inflight, events, stderr,
                   exitStatus, run, filesAtStart>>

\* __main__: the output directory is no directory, sys.exit(message)
DirMissing ==
    /\ pc = "start"
    /\ fault = "nodir"
    /\ Exit(1)
    /\ stderr' = Say(stderr, "not a valid directory", output_dir)
    /\ UNCHANGED <<args, log_verbose, locals, files, inflight, events, run,
                   filesAtStart>>

\* __main__: the output directory exists
DirOk ==
    /\ pc = "start"
    /\ fault # "nodir"
    /\ pc' = "construct"
    /\ UNCHANGED <<args, log_verbose, locals, files, inflight, events, stderr,
                   exitStatus, run, filesAtStart>>

\* FnCliDocWriter.__init__
Construct ==
    /\ pc = "construct"
    /\ log_verbose' = VerboseOr(verbose, no_action)
    /\ pc' = "load"
    /\ UNCHANGED <<args, locals, files, inflight, events, stderr, exitStatus, run,
                   filesAtStart>>

\* _get_command_list: open raises IOError, sys.exit(err)
ListUnreadable ==
    /\ pc = "load"
    /\ fault = "unreadable"
    /\ events' = Append(events, Event("openlist", 0, <<>>))
    /\ stderr' = Say(stderr, "IOError", <<>>)
    /\ Exit(1)
    /\ UNCHANGED <<args, log_verbose, locals, files, inflight, run, filesAtStart>>

\* _get_command_list: the file is read and split into lines
ListLoaded ==
    /\ pc = "load"
    /\ fault # "unreadable"
    /\ events' = Append(events, Event("openlist", 0, <<>>))
    /\ command_list' = Split(fileText, NL)
    /\ idx' = 1
    /\ pc' = "loop"
    /\ UNCHANGED <<args, log_verbose, command, command_output, files, inflight,
                   stderr, exitStatus, run, filesAtStart>>

\* generate_doc: the for loop takes the next line and tokenizes it; a blank
\* line is passed over
FoundCommand ==
    /\ pc = "loop"
    /\ idx <= Len(command_list)
    /\ stderr' = Log(stderr, "Found command", command_list[idx])
    /\ command' = SplitWs(command_list[idx])
    /\ IF Len(command') < 1
       THEN idx' = idx + 1 /\ pc' = "loop"
       ELSE idx' = idx /\ pc' = "run"
    /\ UNCHANGED <<args, log_verbose, command_list, command_output, files,
                   inflight, events, exitStatus, run, filesAtStart>>

\* generate_doc: the for loop is exhausted, the script ends
Finish ==
    /\ pc = "loop"
    /\ idx > Len(command_list)
    /\ Exit(0)
    /\ UNCHANGED <<args, log_verbose, locals, files, inflight, events, stderr,
                   run, filesAtStart>>

\* the invalid command ends the run instead of being passed over
InvalidCommand_Fatal ==
    /\ pc = "run"
    /\ ~IsFnCommand(command)
    /\ stderr' = Say(stderr, "is an invalid Fn command.", command_list[idx])
    /\ Exit(1)
    /\ UNCHANGED <<args, log_verbose, locals, files, inflight, events, run,
                   filesAtStart>>

\* _run_command raises InvalidFnCommand; generate_doc reports the line and
\* continues with the next one
InvalidCommand ==
    /\ pc = "run"
    /\ ~IsFnCommand(command)
    /\ stderr' = Say(stderr, "is an invalid Fn command. Skipping...",
                     command_list[idx])
    /\ idx' = idx + 1
    /\ pc' = "loop"
    /\ UNCHANGED <<args, log_verbose, command_list, command, command_output,
                   files, inflight, events, exitStatus, run, filesAtStart>>

\* _run_command with no-action set: '--help' is appended, "" is returned
DryRunCommand ==
    /\ pc = "run"
    /\ IsFnCommand(command)
    /\ DryRun
    /\ command' = Append(command, HELP_FLAG)
    /\ stderr' = Log(stderr, "Running command", command')
    /\ command_output' = StrVal(<<>>)
    /\ pc' = "write"
    /\ UNCHANGED <<args, log_verbose, command_list, idx, files, inflight, events,
                   exitStatus, run, filesAtStart>>

\* _run_command: check_output cannot execute the tool; the OSError is caught
\* nowhere and ends the script with a traceback
SpawnFailed ==
    /\ pc = "run"
    /\ IsFnCommand(command)
    /\ ~DryRun
    /\ fault = "nolaunch"
    /\ command' = Append(command, HELP_FLAG)
    /\ stderr' = Say(Log(stderr, "Running command", command'),
                     "Traceback", "OSError")
    /\ Exit(1)
    /\ UNCHANGED <<args, log_verbose, command_list, idx, command_output, files,
                   inflight, events, run, filesAtStart>>

\* the tool is started and not waited for
Spawn_NoWait ==
    /\ pc = "run"
    /\ IsFnCommand(command)
    /\ ~DryRun
    /\ fault # "nolaunch"
    /\ command' = Append(command, HELP_FLAG)
    /\ stderr' = Log(stderr, "Running command", command')
    /\ inflight' = inflight + 1
    /\ events' = Append(events, Event("spawn", idx, command'))
    /\ pc' = "write"
    /\ UNCHANGED <<args, log_verbose, command_list, idx, command_output, files,
                   exitStatus, run, filesAtStart>>

\* _run_command: check_output starts the tool with the tokens and '--help'
Spawn ==
    /\ pc = "run"
    /\ IsFnCommand(command)
    /\ ~DryRun
    /\ fault # "nolaunch"
    /\ command' = Append(command, HELP_FLAG)
    /\ stderr' = Log(stderr, "Running command", command')
    /\ inflight' = inflight + 1
    /\ events' = Append(events, Event("spawn", idx, command'))
    /\ pc' = "wait"
    /\ UNCHANGED <<args, log_verbose, command_list, idx, command_output, files,
                   exitStatus, run, filesAtStart>>

\* the exit status of the tool is not looked at: what it printed is returned
CommandFailed_Ignored ==
    /\ pc = "wait"
    /\ fault = "nonzero" /\ command = FailingArgv
    /\ inflight' = inflight - 1
    /\ events' = Append(events, Event("failed", idx, command))
    /\ command_output' = Captured(HelpText(command))
    /\ pc' = "write"
    /\ UNCHANGED <<args, log_verbose, command_list, idx, command, files, stderr,
                   exitStatus, run, filesAtStart>>

\* check_output: the tool exits with a status that is not zero;
\* CalledProcessError is caught nowhere and ends the script with a traceback
CommandFailed ==
    /\ pc = "wait"
    /\ fault = "nonzero" /\ command = FailingArgv
    /\ inflight' = inflight - 1
    /\ events' = Append(events, Event("failed", idx, command))
    /\ stderr' = Say(stderr, "Traceback", "CalledProcessError")
    /\ Exit(1)
    /\ UNCHANGED <<args, log_verbose, locals, files, run, filesAtStart>>

\* check_output: the tool exits with status zero, what it printed is returned
CommandReaped ==
    /\ pc = "wait"
    /\ ~(fault = "nonzero" /\ command = FailingArgv)
    /\ inflight' = inflight - 1
    /\ events' = Append(events, Event("reaped", idx, command))
    /\ command_output' = Captured(HelpText(command))
    /\ pc' = "write"
    /\ UNCHANGED <<args, log_verbose, command_list, idx, command, files, stderr,
                   exitStatus, run, filesAtStart>>

\* _write_doc with no-action set: the destination is logged, nothing is written
DryWrite ==
    /\ pc = "write"
    /\ DryRun
    /\ stderr' = Log(Log(stderr, "Writing documentation to",
                         OutputFile(command_list[idx])), "", <<>>)
    /\ idx' = idx + 1
    /\ pc' = "loop"
    /\ UNCHANGED <<args, log_verbose, command_list, command, command_output,
                   files, inflight, events, exitStatus, run, filesAtStart>>

\* the IOError is reported and the loop goes on to the next line
WriteFailed_Skip ==
    /\ pc = "write"
    /\ ~DryRun
    /\ fault = "unwritable" /\ OutputFile(command_list[idx]) \in ReadOnlyPaths
    /\ stderr' = Say(stderr, "IOError", OutputFile(command_list[idx]))
    /\ idx' = idx + 1
    /\ pc' = "loop"
    /\ UNCHANGED <<args, log_verbose, command_list, command, command_output,
                   files, inflight, events, exitStatus, run, filesAtStart>>

\* _write_doc: open raises IOError, sys.exit(err)
WriteFailed ==
    /\ pc = "write"
    /\ ~DryRun
    /\ fault = "unwritable" /\ OutputFile(command_list[idx]) \in ReadOnlyPaths
    /\ stderr' = Say(Log(stderr, "Writing documentation to",
                         OutputFile(command_list[idx])),
                     "IOError", OutputFile(command_list[idx]))
    /\ Exit(1)
    /\ UNCHANGED <<args, log_verbose, locals, files, inflight, events, run,
                   filesAtStart>>

\* _write_doc: the rendered template is written; generate_doc logs the
\* separator and goes on to the next line
WriteDone ==
    /\ pc = "write"
    /\ ~DryRun
    /\ ~(fault = "unwritable" /\ OutputFile(command_list[idx]) \in ReadOnlyPaths)
    /\ files' = WriteFile(files, OutputFile(command_list[idx]),
                          Render(command_list[idx], command_output))
    /\ events' = Append(events, Event("write", idx, OutputFile(command_list[idx])))
    /\ stderr' = Log(Log(stderr, "Writing documentation to",
                         OutputFile(command_list[idx])), "", <<>>)
    /\ idx' = idx + 1
    /\ pc' = "loop"
    /\ UNCHANGED <<args, log_verbose, command_list, command, command_output,
                   inflight, exitStatus, run, filesAtStart>>

\* the script is started a second time with the same arguments, in the same
\* environment, on the file system the first run left
Rerun ==
    /\ pc = "exit"
    /\ run = 1
    /\ run' = 2
    /\ filesAtStart' = files
    /\ pc' = "start"
    /\ log_verbose' = 0
    /\ command_list' = <<>>
    /\ idx' = 1
    /\ command' = <<>>
    /\ command_output' = StrVal(<<>>)
    /\ events' = <<>>
    /\ stderr' = <<>>
    /\ exitStatus' = -1
    /\ UNCHANGED <<args, files, inflight>>

Next ==
    \/ DirMissing
    \/ DirOk
    \/ Construct
    \/ ListUnreadable
    \/ ListLoaded
    \/ FoundCommand
    \/ Finish
    \/ InvalidCommand
    \/ DryRunCommand
    \/ SpawnFailed
    \/ Spawn
    \/ CommandFailed
    \/ CommandReaped
    \/ DryWrite
    \/ WriteFailed
    \/ WriteDone
    \/ Rerun

Spec == Init /\ [][Next]_vars

(***************************************************************************)
(* Vocabulary of the properties.                                           *)
(***************************************************************************)
\* the lines of the command list file
InputLines == Split(fileText, NL)

Tokens(i) == SplitWs(InputLines[i])

\* line i holds a command of the tool
IsValidLine(i) == Tokens(i) # <<>> /\ Tokens(i)[1] = <<"f", "n">>

\* the positions of the valid lines, in the order of the list
ValidLines == SelectSeq([i \in 1..Len(InputLines) |-> i], LAMBDA i : IsValidLine(i))

\* the name of the document of line i: its tokens joined by hyphens, and .md
DocName(i) == Join(<<"-">>, Tokens(i)) \o <<".", "m", "d">>

EndsWith(s, t) == Len(t) <= Len(s) /\ Drop(s, Len(s) - Len(t) + 1) = t

EventsOf(kinds) == SelectSeq(events, LAMBDA e : e.ev \in kinds)

Spawns == EventsOf({"spawn"})

Writes == EventsOf({"write"})

RefsFnBuild == <<"r", "e", "f", "s", "/", "f", "n", "-", "b", "u", "i", "l", "d",
                 ".", "m", "d">>

RefsFnAppsList == <<"r", "e", "f", "s", "/", "f", "n", "-", "a", "p", "p", "s", "-",
                    "l", "i", "s", "t", ".", "m", "d">>

(***************************************************************************)
(* C1: in a run with no-action off that ends without a fatal error, every  *)
(* valid line causes exactly one process invocation and one document       *)
(* write, to the name made of its tokens; blank lines and lines with       *)
(* another first token cause neither, and the documents that exist are     *)
(* exactly the ones written.                                               *)
(***************************************************************************)
C1_DocsOfValidLines ==
    (pc = "exit" /\ exitStatus = 0 /\ ~no_action) =>
        /\ Len(Spawns) = Len(ValidLines)
        /\ Len(Writes) = Len(ValidLines)
        /\ \A k \in 1..Len(ValidLines) :
              /\ Spawns[k].line = ValidLines[k]
              /\ Writes[k].line = ValidLines[k]
              /\ EndsWith(Writes[k].what, DocName(ValidLines[k]))
        /\ DOMAIN files = {Writes[k].what : k \in 1..Len(Writes)}

\* the scenario list has been processed: exactly the two documents exist
C1_Witness ==
    /\ pc = "exit" /\ exitStatus = 0 /\ ~no_action
    /\ fileText = ScenarioList
    /\ output_dir = <<"r", "e", "f", "s", "/">>
    /\ Len(Spawns) = 2
    /\ DOMAIN files = {RefsFnBuild, RefsFnAppsList}

(***************************************************************************)
(* C3: with the no-action flag set, whatever the list and the verbosity,   *)
(* no process is ever started and no file is ever written or modified.     *)
(***************************************************************************)
C3_NoActionNoEffect ==
    no_action =>
        /\ inflight = 0
        /\ EventsOf({"spawn", "reaped", "failed", "write"}) = <<>>
        /\ files = filesAtStart
        /\ files = NoFiles

\* a no-action run over a list with a valid line has ended, having logged
\* where it would have written although -v was not given
C3_Witness ==
    /\ no_action /\ verbose = 0
    /\ pc = "exit" /\ exitStatus = 0
    /\ Len(ValidLines) >= 1
    /\ \E k \in 1..Len(stderr) : stderr[k].msg = "Writing documentation to"

(***************************************************************************)
(* C5: when the output directory does not exist the run ends with a        *)
(* non-zero status before the command list is opened: the list is never    *)
(* read, no process is started and no file is written.                     *)
(***************************************************************************)
C5_MissingDirFailsFirst ==
    fault = "nodir" =>
        /\ pc \in {"start", "exit"}
        /\ pc = "exit" => exitStatus = 1
        /\ events = <<>>
        /\ command_list = <<>>
        /\ inflight = 0
        /\ files = filesAtStart

\* the run has ended on the missing directory, its list holding a valid line
C5_Witness ==
    /\ fault = "nodir"
    /\ pc = "exit" /\ exitStatus = 1
    /\ Len(ValidLines) >= 1
    /\ ~no_action

(***************************************************************************)
(* C10: processing is sequential in the order of the list: at most one     *)
(* process is in flight, the process of a line has ended before its        *)
(* document is written, and its document is written before the process of  *)
(* any later line is started.                                              *)
(***************************************************************************)
C10_Sequential ==
    LET E == EventsOf({"spawn", "reaped", "failed", "write"})
    IN  /\ inflight \in {0, 1}
        /\ (inflight = 1) <=> (E # <<>> /\ E[Len(E)].ev = "spawn")
        /\ \A k \in 1..Len(E) :
              /\ E[k].ev = "spawn" =>
                    \/ k = 1
                    \/ E[k - 1].ev = "write" /\ E[k - 1].line < E[k].line
              /\ E[k].ev \in {"reaped", "failed"} =>
                    k > 1 /\ E[k - 1].ev = "spawn" /\ E[k - 1].line = E[k].line
              /\ E[k].ev = "write" =>
                    k > 1 /\ E[k - 1].ev = "reaped" /\ E[k - 1].line = E[k].line

\* two lines have been run and written, one after the other
C10_Witness ==
    /\ Len(Writes) = 2
    /\ Writes[1].line < Writes[2].line
    /\ Len(EventsOf({"reaped"})) = 2

(***************************************************************************)
(* C2: a line whose first token is not the tool literal is passed over: no *)
(* process, no document, the loop goes on to the next line so that later   *)
(* valid lines are run and written, and the exit status of the run is the  *)
(* one the valid lines and the environment alone decide.                   *)
(***************************************************************************)
\* the fatal condition the valid line i meets, if it meets one
LineIsFatal(i) ==
    \/ fault = "nolaunch"
    \/ fault = "nonzero" /\ Append(Tokens(i), HELP_FLAG) = FailingArgv
    \/ fault = "unwritable" /\ OutputFile(InputLines[i]) \in ReadOnlyPaths

\* the exit status of the run over the list with its invalid lines removed
StatusOfValidLines ==
    IF fault \in {"nodir", "unreadable"} THEN 1
    ELSE IF no_action THEN 0
    ELSE IF \E k \in 1..Len(ValidLines) : LineIsFatal(ValidLines[k]) THEN 1
    ELSE 0

AtInvalidLine == pc = "run" /\ Tokens(idx)[1] # <<"f", "n">>

C2_StatusUnaffected ==
    /\ pc = "exit" => exitStatus = StatusOfValidLines
    /\ (pc = "exit" /\ exitStatus = 0 /\ ~no_action) =>
          \A k \in 1..Len(ValidLines) :
              \E w \in 1..Len(Writes) : Writes[w].line = ValidLines[k]

C2_SkipStep ==
    AtInvalidLine =>
        /\ pc' = "loop"
        /\ idx' = idx + 1
        /\ exitStatus' = exitStatus
        /\ files' = files
        /\ events' = events
        /\ inflight' = inflight

\* C2: an invalid line is passed over without effect, and the exit status of
\* the run is the one its valid lines decide
C2_InvalidLineSkipped == []C2_StatusUnaffected /\ [][C2_SkipStep]_vars

\* an invalid line was reported and passed over, and a valid line after it
\* has been run and written
C2_Witness ==
    /\ pc = "exit" /\ exitStatus = 0 /\ ~no_action
    /\ \E i \in 1..Len(InputLines) :
          /\ Tokens(i) # <<>> /\ ~IsValidLine(i)
          /\ \E j \in (i + 1)..Len(InputLines) :
                \E w \in 1..Len(Writes) : Writes[w].line = j
    /\ \E k \in 1..Len(stderr) :
          stderr[k].msg = "is an invalid Fn command. Skipping..."

(***************************************************************************)
(* C4, as stated: the exit status of the tool is not inspected; when the   *)
(* tool returns a non-zero status for a valid line, what it printed is     *)
(* written to the document of the line and the run goes on.                *)
(***************************************************************************)
C4_ToolStatusIgnored ==
    \A k \in 1..Len(events) :
        events[k].ev = "failed" =>
            IF k = Len(events)
            THEN pc = "write" /\ exitStatus = -1
            ELSE events[k + 1].ev = "write" /\ events[k + 1].line = events[k].line

(***************************************************************************)
(* C4, amended: when the tool returns a non-zero status for a valid line,  *)
(* check_output raises and the run ends at once with a non-zero status: no *)
(* document is written for the line and no later line is processed.        *)
(***************************************************************************)
C4_NonZeroAborts ==
    \A k \in 1..Len(events) :
        events[k].ev = "failed" =>
            /\ k = Len(events)
            /\ pc = "exit" /\ exitStatus = 1
            /\ idx = events[k].line
            /\ \A w \in 1..Len(Writes) : Writes[w].line < events[k].line
            /\ inflight = 0

\* the tool failed on a line that a valid line follows
C4_Witness ==
    /\ \E k \in 1..Len(events) : events[k].ev = "failed"
    /\ pc = "exit"
    /\ idx < Len(InputLines) /\ IsValidLine(idx + 1)

(***************************************************************************)
(* C6: whatever the output directory path, with or without a trailing      *)
(* separator, the document of a command with tokens t0..tn is written to   *)
(* the file t0-t1-...-tn.md inside the output directory, and the name      *)
(* never holds the '--help' token.                                         *)
(***************************************************************************)
\* the output directory, without the trailing separator
DirName == IF output_dir # <<>> /\ output_dir[Len(output_dir)] = "/"
           THEN SubSeq(output_dir, 1, Len(output_dir) - 1)
           ELSE output_dir

\* C6: every document is written to <output directory>/<t0-...-tn>.md
C6_DocInsideOutputDir ==
    \A w \in 1..Len(Writes) :
        Writes[w].what = DirName \o <<"/">> \o DocName(Writes[w].line)

(***************************************************************************)
(* C7: a fatal condition (list unreadable, document unwritable, the tool   *)
(* failing to execute) ends the run at once with a non-zero status: the    *)
(* failing step writes nothing and starts nothing, and after it no line is *)
(* tokenized, run or written, and nothing is retried.                      *)
(***************************************************************************)
FatalNow ==
    \/ pc = "load" /\ fault = "unreadable"
    \/ pc = "run" /\ ~no_action /\ fault = "nolaunch"
          /\ Tokens(idx)[1] = <<"f", "n">>
    \/ pc = "write" /\ ~no_action /\ fault = "unwritable"
          /\ OutputFile(InputLines[idx]) \in ReadOnlyPaths

C7_FatalStep ==
    /\ FatalNow =>
          /\ pc' = "exit"
          /\ exitStatus' = 1
          /\ idx' = idx
          /\ files' = files
          /\ inflight' = inflight
          /\ EventsOf({"spawn", "write"})' = EventsOf({"spawn", "write"})
    /\ (pc = "exit" /\ exitStatus = 1) => run' # run

\* C7: a fatal step ends the run with status 1 and changes nothing else, and
\* nothing of the run follows it
C7_FatalAborts == [][C7_FatalStep]_vars

\* a document could not be written: the run has ended with status 1, the
\* valid line that follows was never run
C7_Witness ==
    /\ pc = "exit" /\ exitStatus = 1
    /\ fault = "unwritable"
    /\ idx < Len(InputLines) /\ IsValidLine(idx + 1)
    /\ Len(Spawns) = 1

(***************************************************************************)
(* C8: a second run on the same list, directory and flags, the tool        *)
(* printing the same text, leaves the same documents with the same         *)
(* contents as the first: a document is overwritten, never appended to,    *)
(* also when lines of the list repeat or map to the same file.             *)
(***************************************************************************)
C8_Idempotent == (run = 2 /\ pc = "exit") => files = filesAtStart

\* the second run has ended, having written one document twice, for two
\* lines that differ
C8_Witness ==
    /\ run = 2 /\ pc = "exit" /\ exitStatus = 0
    /\ Len(Writes) = 2
    /\ Writes[1].what = Writes[2].what
    /\ InputLines[Writes[1].line] # InputLines[Writes[2].line]

(***************************************************************************)
(* C9: the content written for a valid line with command string s and      *)
(* captured output o is the template with both placeholders substituted:   *)
(* "# `s`", a blank line, "```c", "$ s", o, "```", where s is the line as  *)
(* it appears in the list and o is the text the tool printed, unchanged.   *)
(***************************************************************************)
\* the document of line i: the template with s and o filled in
ExpectedDoc(i) ==
    <<"#", " ", BQ>> \o InputLines[i] \o <<BQ, NL, NL, BQ, BQ, BQ, "c", NL, "$", " ">>
    \o InputLines[i] \o <<NL>>
    \o HelpText(Append(Tokens(i), HELP_FLAG)) \o <<NL, BQ, BQ, BQ>>

\* the line whose write is the last one of the run to the path
LastWriter(path) ==
    LET ws == {w \in 1..Len(Writes) : Writes[w].what = path}
    IN  Writes[CHOOSE w \in ws : \A v \in ws : v <= w].line

\* C9: every document written holds the template filled with the line as it
\* appears in the list and the text the tool printed
C9_TemplateContent ==
    \A w \in 1..Len(Writes) :
        files[Writes[w].what] = ExpectedDoc(LastWriter(Writes[w].what))

====
